---- MODULE Spec2Model ----
(***************************************************************************)
(* State machine of the App component of MyGeoLocation (src/App.tsx):      *)
(* the React state of the screen, the calls outstanding at the location    *)
(* service and at the map surface, and one action per handler or promise   *)
(* continuation.  Angles are in micro-degrees (0.01 degree = 10000), zoom  *)
(* levels in 1/ZoomScale steps (zoom 1.5 = 3 when ZoomScale = 2).          *)
(***************************************************************************)
EXTENDS Integers, Sequences, FiniteSets

\* ---------------------------------------------------------------- bounds
NumSamples == 2          \* distinct fixes the location service can return
ZoomScale == 2           \* sub-steps per zoom level the surface can report
MaxZoom == 4             \* largest zoom level the surface reports
MaxReads == 1            \* getCamera() promises outstanding at once
MaxSettingsRequests == 1 \* discarded permission requests outstanding at once

\* ------------------------------------------------------------- constants
CONSTANTA_LATITUDE == 44159801
CONSTANTA_LONGITUDE == 28634800
DEFAULT_LATITUDE_DELTA == 92200
DEFAULT_LONGITUDE_DELTA == 42100
TIGHT_DELTA == 10000
DEFAULT_ZOOM == 10

CONSTANTA_COORDINATES ==
    [latitude |-> CONSTANTA_LATITUDE, longitude |-> CONSTANTA_LONGITUDE]

CONSTANTA_REGION ==
    [latitude |-> CONSTANTA_COORDINATES.latitude,
     longitude |-> CONSTANTA_COORDINATES.longitude,
     latitudeDelta |-> DEFAULT_LATITUDE_DELTA,
     longitudeDelta |-> DEFAULT_LONGITUDE_DELTA]

PERMISSION_DENIED_MSG == "Location permission was denied!"
PERMISSION_ERROR_MSG == "Error getting permission!"
LOCATION_ERROR_MSG == "Could not get current location. Make sure GPS is enabled!"
NullMsg == "null"

\* useState<Location.LocationObject | null>(null): the null value
NullLocation == [isNull |-> TRUE]

\* LocationObject values the location service can resolve with
Samples ==
    {[coords |-> [latitude |-> 44180000 + i, longitude |-> 28650000 - i],
      timestamp |-> i] : i \in 1..NumSamples}

\* a rejected getCurrentPositionAsync() promise
PositionError == [rejected |-> TRUE]

\* mapRef.current.animateToRegion not called yet
NoRegionAnim == [none |-> TRUE]

\* camera.zoom is undefined (the surface reports no zoom)
Undefined == 0 - 1

\* mapRef.current.animateCamera not called yet
NoCameraAnim == [by |-> "none", read |-> Undefined, zoom |-> Undefined]

\* zoom values the surface can report from getCamera()
ZoomValues == {Undefined} \cup (0..(MaxZoom * ZoomScale))

VARIABLES
    location,            \* useState location
    region,              \* useState region
    loading,             \* useState loading
    errorMsg,            \* useState errorMsg
    permissionGranted,   \* useState permissionGranted
    mapType,             \* useState mapType
    showDetails,         \* useState showDetails
    alert,               \* Alert dialog on screen
    osPermission,        \* status held by the permission service
    startupRequest,      \* the useEffect permission request is outstanding
    settingsRequests,    \* outstanding requests made from the Settings button
    positionCalls,       \* outstanding getCurrentPositionAsync() calls
    positionResult,      \* last outcome the location service delivered
    regionAnim,          \* last region passed to animateToRegion
    cameraZoom,          \* zoom of the surface's camera
    cameraReads,         \* outstanding getCamera() promises, oldest first
    cameraAnim,          \* last camera passed to animateCamera
    cameraPending        \* that animation is not applied by the surface yet

vars == <<location, region, loading, errorMsg, permissionGranted, mapType,
          showDetails, alert, osPermission, startupRequest, settingsRequests,
          positionCalls, positionResult, regionAnim, cameraZoom, cameraReads,
          cameraAnim, cameraPending>>

reactVars == <<location, region, loading, errorMsg, permissionGranted, mapType,
               showDetails>>
permVars == <<osPermission, startupRequest, settingsRequests>>
positionVars == <<positionCalls, positionResult>>
cameraVars == <<cameraZoom, cameraReads, cameraAnim, cameraPending>>

\* ------------------------------------------------------------------ Init
\* State after the first render and the start of the mount effect:
\* setLoading(true) has run and the permission request is outstanding.
Init ==
    /\ location = NullLocation
    /\ region = CONSTANTA_REGION
    /\ loading = TRUE
    /\ errorMsg = NullMsg
    /\ permissionGranted = FALSE
    /\ mapType = "standard"
    /\ showDetails = FALSE
    /\ alert = "none"
    /\ osPermission = "undetermined"
    /\ startupRequest = TRUE
    /\ settingsRequests = 0
    /\ positionCalls = 0
    /\ positionResult = NullLocation
    /\ regionAnim = NoRegionAnim
    /\ cameraZoom \in ZoomValues
    /\ cameraReads = <<>>
    /\ cameraAnim = NoCameraAnim
    /\ cameraPending = FALSE

\* --------------------------------------------------------------- helpers
\* mapRef.current: the MapView is rendered unconditionally, so the ref is
\* attached for as long as the component is mounted.
MapRefCurrent == TRUE

\* The loading overlay fills the screen above every control while loading,
\* and an Alert is modal: controls take presses only without both.
Touchable == ~loading /\ alert = "none"

\* AcquisitionState as the screen shows it: the spinner, the location error.
AcquisitionState ==
    IF loading THEN "InFlight"
    ELSE IF errorMsg = LOCATION_ERROR_MSG THEN "Failed"
    ELSE "Idle"

\* newRegion built with the spans of the default region
NewRegionWide(currentLocation) ==
    [latitude |-> currentLocation.coords.latitude,
     longitude |-> currentLocation.coords.longitude,
     latitudeDelta |-> DEFAULT_LATITUDE_DELTA,
     longitudeDelta |-> DEFAULT_LONGITUDE_DELTA]

\* newRegion of getCurrentPosition
NewRegion(currentLocation) ==
    [latitude |-> currentLocation.coords.latitude,
     longitude |-> currentLocation.coords.longitude,
     latitudeDelta |-> TIGHT_DELTA,
     longitudeDelta |-> TIGHT_DELTA]

\* the region literal of centerOnUser
CenterRegion(loc) ==
    [latitude |-> loc.coords.latitude,
     longitude |-> loc.coords.longitude,
     latitudeDelta |-> TIGHT_DELTA,
     longitudeDelta |-> TIGHT_DELTA]

\* (camera.zoom || 10): undefined and 0 are falsy
ZoomOrDefault(zoom) ==
    IF zoom = Undefined \/ zoom = 0 THEN DEFAULT_ZOOM * ZoomScale ELSE zoom

\* zoomIn stepping by two levels
ZoomInZoomBy2(zoom) == ZoomOrDefault(zoom) + 2 * ZoomScale

\* zoom: (camera.zoom || 10) + 1
ZoomInZoom(zoom) == ZoomOrDefault(zoom) + ZoomScale

\* newZoom = (camera.zoom || 10) - 1; zoom: newZoom > 0 ? newZoom : 1
ZoomOutZoom(zoom) ==
    LET newZoom == ZoomOrDefault(zoom) - ZoomScale
    IN  IF newZoom > 0 THEN newZoom ELSE ZoomScale

\* ---------------------------------------------------- permission on load
\* Continuation of the mount effect: the permission request settles.
\* outcome "granted" / "denied" is the status resolved, "error" a rejection.
RequestPermissionSettle(outcome) ==
    /\ startupRequest
    /\ startupRequest' = FALSE
    /\ osPermission' = IF outcome = "error" THEN osPermission ELSE outcome
    /\ IF outcome = "error"
       THEN /\ errorMsg' = PERMISSION_ERROR_MSG
            /\ UNCHANGED permissionGranted
       ELSE IF outcome # "granted"
       THEN /\ errorMsg' = PERMISSION_DENIED_MSG
            /\ permissionGranted' = FALSE
       ELSE /\ permissionGranted' = TRUE
            /\ errorMsg' = NullMsg
    /\ loading' = FALSE
    /\ UNCHANGED <<location, region, mapType, showDetails, alert,
                   settingsRequests, positionVars, regionAnim, cameraVars>>

\* ------------------------------------------------- getCurrentPosition
\* getCurrentPosition without the permissionGranted check
GetCurrentPositionNoGate ==
    /\ Touchable
    /\ ~loading
    /\ loading' = TRUE
    /\ errorMsg' = NullMsg
    /\ positionCalls' = positionCalls + 1
    /\ UNCHANGED <<location, region, permissionGranted, mapType, showDetails,
                   alert, permVars, positionResult, regionAnim, cameraVars>>

\* getCurrentPosition without setLoading(true)
GetCurrentPositionNoLoading ==
    /\ Touchable
    /\ ~loading
    /\ IF ~permissionGranted
       THEN /\ alert' = "PermissionRequired"
            /\ UNCHANGED <<errorMsg, positionCalls>>
       ELSE /\ errorMsg' = NullMsg
            /\ positionCalls' = positionCalls + 1
            /\ UNCHANGED alert
    /\ UNCHANGED <<location, region, loading, permissionGranted, mapType,
                   showDetails, permVars, positionResult, regionAnim,
                   cameraVars>>

\* Press of the main button (disabled={loading}), up to the await.
GetCurrentPosition ==
    /\ Touchable
    /\ ~loading
    /\ IF ~permissionGranted
       THEN /\ alert' = "PermissionRequired"
            /\ UNCHANGED <<loading, errorMsg, positionCalls>>
       ELSE /\ loading' = TRUE
            /\ errorMsg' = NullMsg
            /\ positionCalls' = positionCalls + 1
            /\ UNCHANGED alert
    /\ UNCHANGED <<location, region, permissionGranted, mapType, showDetails,
                   permVars, positionResult, regionAnim, cameraVars>>

\* The awaited getCurrentPositionAsync() resolves with currentLocation.
GetCurrentPositionResolve(currentLocation) ==
    /\ positionCalls > 0
    /\ positionCalls' = positionCalls - 1
    /\ positionResult' = currentLocation
    /\ location' = currentLocation
    /\ region' = NewRegion(currentLocation)
    /\ regionAnim' = IF MapRefCurrent THEN NewRegion(currentLocation)
                     ELSE regionAnim
    /\ loading' = FALSE
    /\ UNCHANGED <<errorMsg, permissionGranted, mapType, showDetails, alert,
                   permVars, cameraVars>>

\* the catch branch also dropping the stored location
GetCurrentPositionRejectClears ==
    /\ positionCalls > 0
    /\ positionCalls' = positionCalls - 1
    /\ positionResult' = PositionError
    /\ errorMsg' = LOCATION_ERROR_MSG
    /\ location' = NullLocation
    /\ loading' = FALSE
    /\ UNCHANGED <<region, permissionGranted, mapType, showDetails,
                   alert, permVars, regionAnim, cameraVars>>

\* setLoading(false) at the end of the try block instead of in finally
GetCurrentPositionRejectStuck ==
    /\ positionCalls > 0
    /\ positionCalls' = positionCalls - 1
    /\ positionResult' = PositionError
    /\ errorMsg' = LOCATION_ERROR_MSG
    /\ UNCHANGED <<location, region, loading, permissionGranted, mapType,
                   showDetails, alert, permVars, regionAnim, cameraVars>>

\* The awaited getCurrentPositionAsync() rejects: catch, then finally.
GetCurrentPositionReject ==
    /\ positionCalls > 0
    /\ positionCalls' = positionCalls - 1
    /\ positionResult' = PositionError
    /\ errorMsg' = LOCATION_ERROR_MSG
    /\ loading' = FALSE
    /\ UNCHANGED <<location, region, permissionGranted, mapType, showDetails,
                   alert, permVars, regionAnim, cameraVars>>

\* 'Cancel' of the Permission Required alert.
AlertCancel ==
    /\ alert = "PermissionRequired"
    /\ alert' = "none"
    /\ UNCHANGED <<reactVars, permVars, positionVars, regionAnim, cameraVars>>

\* 'Settings' of the Permission Required alert: the request is issued and
\* the promise it returns is dropped.
AlertSettings ==
    /\ alert = "PermissionRequired"
    /\ settingsRequests < MaxSettingsRequests
    /\ alert' = "none"
    /\ settingsRequests' = settingsRequests + 1
    /\ UNCHANGED <<reactVars, osPermission, startupRequest, positionVars,
                   regionAnim, cameraVars>>

\* The permission service settles a request made from 'Settings'; nothing
\* in the component reads the result.
SettingsRequestSettle(outcome) ==
    /\ settingsRequests > 0
    /\ settingsRequests' = settingsRequests - 1
    /\ osPermission' = IF outcome = "error" THEN osPermission ELSE outcome
    /\ UNCHANGED <<reactVars, alert, startupRequest, positionVars, regionAnim,
                   cameraVars>>

\* ------------------------------------------------------------- details
\* showLocationDetails without the location check
ShowLocationDetailsNoCheck ==
    /\ Touchable
    /\ alert' = "LocationDetails"
    /\ UNCHANGED <<reactVars, permVars, positionVars, regionAnim, cameraVars>>

\* Press of 'Details'.  The button is rendered only with a location and the
\* function checks it again.
ShowLocationDetails ==
    /\ Touchable
    /\ IF location = NullLocation
       THEN UNCHANGED alert
       ELSE alert' = "LocationDetails"
    /\ UNCHANGED <<reactVars, permVars, positionVars, regionAnim, cameraVars>>

\* 'OK' of the Location Details alert.
AlertOk ==
    /\ alert = "LocationDetails"
    /\ alert' = "none"
    /\ UNCHANGED <<reactVars, permVars, positionVars, regionAnim, cameraVars>>

\* Press of the user marker, rendered only with a location.
MarkerPress ==
    /\ Touchable
    /\ location # NullLocation
    /\ showDetails' = TRUE
    /\ UNCHANGED <<location, region, loading, errorMsg, permissionGranted,
                   mapType, alert, permVars, positionVars, regionAnim,
                   cameraVars>>

\* Press of the close button of the details panel (showDetails && location).
CloseDetails ==
    /\ Touchable
    /\ showDetails /\ location # NullLocation
    /\ showDetails' = FALSE
    /\ UNCHANGED <<location, region, loading, errorMsg, permissionGranted,
                   mapType, alert, permVars, positionVars, regionAnim,
                   cameraVars>>

\* --------------------------------------------------------------- reset
\* Press of 'Reset', rendered only with a location.
ResetToConstanta ==
    /\ Touchable
    /\ location # NullLocation
    /\ region' = CONSTANTA_REGION
    /\ location' = NullLocation
    /\ showDetails' = FALSE
    /\ regionAnim' = IF MapRefCurrent THEN CONSTANTA_REGION ELSE regionAnim
    /\ UNCHANGED <<loading, errorMsg, permissionGranted, mapType, alert,
                   permVars, positionVars, cameraVars>>

ToggleMapType ==
    /\ Touchable
    /\ mapType' = IF mapType = "standard" THEN "satellite" ELSE "standard"
    /\ UNCHANGED <<location, region, loading, errorMsg, permissionGranted,
                   showDetails, alert, permVars, positionVars, regionAnim,
                   cameraVars>>

\* Press of the my-location control (disabled={!location}).
CenterOnUser ==
    /\ Touchable
    /\ location # NullLocation
    /\ IF location # NullLocation /\ MapRefCurrent
       THEN regionAnim' = CenterRegion(location)
       ELSE UNCHANGED regionAnim
    /\ UNCHANGED <<reactVars, alert, permVars, positionVars, cameraVars>>

\* ---------------------------------------------------------------- zoom
\* Press of '+': getCamera() is issued.
ZoomIn ==
    /\ Touchable
    /\ MapRefCurrent
    /\ Len(cameraReads) < MaxReads
    /\ cameraReads' = Append(cameraReads, "zoomIn")
    /\ UNCHANGED <<reactVars, alert, permVars, positionVars, regionAnim,
                   cameraZoom, cameraAnim, cameraPending>>

\* Press of '-': getCamera() is issued.
ZoomOut ==
    /\ Touchable
    /\ MapRefCurrent
    /\ Len(cameraReads) < MaxReads
    /\ cameraReads' = Append(cameraReads, "zoomOut")
    /\ UNCHANGED <<reactVars, alert, permVars, positionVars, regionAnim,
                   cameraZoom, cameraAnim, cameraPending>>

\* The oldest getCamera() resolves with the surface's camera: the then
\* callback of zoomIn or zoomOut builds newCamera and animates to it.
CameraResolve ==
    /\ cameraReads # <<>>
    /\ cameraReads' = Tail(cameraReads)
    /\ LET by == Head(cameraReads)
           zoom == IF by = "zoomIn" THEN ZoomInZoom(cameraZoom)
                   ELSE ZoomOutZoom(cameraZoom)
       IN  IF MapRefCurrent
           THEN /\ cameraAnim' = [by |-> by, read |-> cameraZoom, zoom |-> zoom]
                /\ cameraPending' = TRUE
           ELSE UNCHANGED <<cameraAnim, cameraPending>>
    /\ UNCHANGED <<reactVars, alert, permVars, positionVars, regionAnim,
                   cameraZoom>>

\* The oldest getCamera() rejects: the catch callback only logs.
CameraReject ==
    /\ cameraReads # <<>>
    /\ cameraReads' = Tail(cameraReads)
    /\ UNCHANGED <<reactVars, alert, permVars, positionVars, regionAnim,
                   cameraZoom, cameraAnim, cameraPending>>

\* The surface carries out the camera animation it was last given.
AnimateCameraApply ==
    /\ cameraPending
    /\ cameraAnim.zoom \in ZoomValues
    /\ cameraZoom' = cameraAnim.zoom
    /\ cameraPending' = FALSE
    /\ UNCHANGED <<reactVars, alert, permVars, positionVars, regionAnim,
                   cameraReads, cameraAnim>>

\* The surface's camera moves by itself: a pinch, or a region animation
\* changing the zoom.  Any animation in progress is superseded.
MapGesture(zoom) ==
    /\ cameraZoom' = zoom
    /\ cameraZoom' # cameraZoom
    /\ cameraPending' = FALSE
    /\ UNCHANGED <<reactVars, alert, permVars, positionVars, regionAnim,
                   cameraReads, cameraAnim>>

\* ---------------------------------------------------------------- Next
Next ==
    \/ \E outcome \in {"granted", "denied", "error"} :
           RequestPermissionSettle(outcome)
    \/ GetCurrentPosition
    \/ \E currentLocation \in Samples :
           GetCurrentPositionResolve(currentLocation)
    \/ GetCurrentPositionReject
    \/ AlertCancel
    \/ AlertSettings
    \/ \E outcome \in {"granted", "denied", "error"} :
           SettingsRequestSettle(outcome)
    \/ ShowLocationDetails
    \/ AlertOk
    \/ MarkerPress
    \/ CloseDetails
    \/ ResetToConstanta
    \/ ToggleMapType
    \/ CenterOnUser
    \/ ZoomIn
    \/ ZoomOut
    \/ CameraResolve
    \/ CameraReject
    \/ AnimateCameraApply
    \/ \E zoom \in ZoomValues : MapGesture(zoom)

Spec == Init /\ [][Next]_vars

\* The location service always settles a call, so an awaited
\* getCurrentPositionAsync() is eventually continued.
PositionSettle ==
    \/ \E currentLocation \in Samples :
           GetCurrentPositionResolve(currentLocation)
    \/ GetCurrentPositionReject

FairSpec == Spec /\ WF_vars(PositionSettle)

\* ============================================================== claims

\* The main button takes a press and permission is granted.
CanAcquire == Touchable /\ ~loading /\ permissionGranted

\* C1: a getCurrentPositionAsync() call is issued only with permission
\* granted; a press without it raises the Permission Required alert, issues
\* no call, and leaves the acquisition idle and the location null.
C1_PositionCallOnlyWhenGranted ==
    [][/\ positionCalls' > positionCalls => permissionGranted
       /\ (~permissionGranted /\ GetCurrentPosition)
              => alert' = "PermissionRequired"
       /\ (~permissionGranted /\ alert = "none"
              /\ alert' = "PermissionRequired")
              => /\ positionCalls' = 0
                 /\ positionCalls = 0
                 /\ AcquisitionState' = "Idle"
                 /\ location' = NullLocation]_vars

C1_Witness ==
    /\ alert = "PermissionRequired"
    /\ ~permissionGranted
    /\ osPermission = "denied"
    /\ positionCalls = 0
    /\ AcquisitionState = "Idle"
    /\ location = NullLocation

\* C2: at most one getCurrentPositionAsync() call is outstanding, it is
\* outstanding only while loading, and a stored location is the result of
\* the one call that resolved last.
C2_AtMostOneOutstanding ==
    /\ positionCalls <= 1
    /\ positionCalls = 1 => loading /\ ~Touchable
    /\ (positionResult \in Samples /\ location # NullLocation)
           => location = positionResult

C2_Witness ==
    /\ positionCalls = 1
    /\ loading
    /\ location \in Samples
    /\ positionResult = location

\* C3: reset yields location null, acquisition idle, details hidden and
\* the default region, set and animated to, from whatever state it is
\* pressed in.
C3_ResetYieldsIdleDefaults ==
    [][ResetToConstanta
          => /\ location' = NullLocation
             /\ AcquisitionState' = "Idle"
             /\ positionCalls' = 0
             /\ showDetails' = FALSE
             /\ region' = CONSTANTA_REGION
             /\ regionAnim' = CONSTANTA_REGION]_vars

\* C4: when zoomOut reads the zoom that the preceding zoomIn requested from
\* a zoom z >= 2, it requests z again; when zoomOut reads zoom 1 it
\* requests 1.
C4_ZoomRoundTrip ==
    [][(cameraAnim' # cameraAnim /\ cameraAnim'.by = "zoomOut")
          => /\ (/\ cameraAnim.by = "zoomIn"
                 /\ cameraAnim.read >= 2 * ZoomScale
                 /\ cameraZoom = cameraAnim.zoom)
                => cameraAnim'.zoom = cameraAnim.read
             /\ cameraZoom = ZoomScale => cameraAnim'.zoom = ZoomScale]_vars

C4_Witness ==
    /\ cameraAnim.by = "zoomOut"
    /\ cameraAnim.read = 3 * ZoomScale
    /\ cameraAnim.zoom = 2 * ZoomScale
    /\ cameraZoom = 2 * ZoomScale
    /\ ~cameraPending

\* C5: for every zoom the surface reports, the zoom zoomOut requests is
\* never below 1, and for a zoom read above 0 it is the zoom read minus one
\* clamped to a minimum of 1.
C5_ZoomOutClampedAtOne ==
    cameraAnim.by = "zoomOut"
       => /\ cameraAnim.zoom >= ZoomScale
          /\ cameraAnim.read > 0
                => cameraAnim.zoom =
                      (IF cameraAnim.read - ZoomScale >= ZoomScale
                       THEN cameraAnim.read - ZoomScale ELSE ZoomScale)

\* C6: a rejected position call records the location error, leaves the
\* stored location as it was, and neither changes the region nor asks the
\* surface for an animation.
C6_FailureLeavesSampleAndViewport ==
    [][(positionCalls' < positionCalls /\ positionResult' = PositionError)
          => /\ AcquisitionState' = "Failed"
             /\ errorMsg' = LOCATION_ERROR_MSG
             /\ location' = location
             /\ region' = region
             /\ regionAnim' = regionAnim
             /\ cameraAnim' = cameraAnim
             /\ cameraZoom' = cameraZoom]_vars

C6_Witness ==
    /\ positionResult = PositionError
    /\ AcquisitionState = "Failed"
    /\ location \in Samples
    /\ region = NewRegion(location)
    /\ positionCalls = 0

\* C7: a resolved position call stores exactly the returned location, ends
\* loading with no error shown, and sets and animates the region to the
\* returned coordinate with a span of 0.01 degrees in both axes.
C7_SuccessStoresSampleAndTightRegion ==
    [][(positionCalls' < positionCalls /\ positionResult' \in Samples)
          => /\ location' = positionResult'
             /\ loading' = FALSE
             /\ errorMsg' = NullMsg
             /\ region' = [latitude |-> positionResult'.coords.latitude,
                           longitude |-> positionResult'.coords.longitude,
                           latitudeDelta |-> TIGHT_DELTA,
                           longitudeDelta |-> TIGHT_DELTA]
             /\ regionAnim' = region']_vars

C7_Witness ==
    /\ location \in Samples
    /\ positionResult = location
    /\ positionCalls = 0
    /\ ~loading
    /\ errorMsg = NullMsg
    /\ region.latitude = location.coords.latitude
    /\ region.latitudeDelta = TIGHT_DELTA
    /\ regionAnim = region

\* C8: when permission was denied at startup and a later permission request
\* is granted by the permission service, permissionGranted becomes true.
C8_RepromptRecovers ==
    [][(/\ errorMsg = PERMISSION_DENIED_MSG
        /\ osPermission = "denied"
        /\ settingsRequests' < settingsRequests
        /\ osPermission' = "granted")
          => permissionGranted' = TRUE]_vars

\* C9: with the location null, showLocationDetails changes nothing, and no
\* step shows the details panel or the details alert.
C9_ShowDetailsNoOp ==
    [][location = NullLocation
          => /\ showDetails = FALSE
             /\ showDetails' = FALSE
             /\ alert' # "LocationDetails"
             /\ ShowLocationDetails => UNCHANGED vars]_vars

C9_Witness ==
    /\ location = NullLocation
    /\ regionAnim = CONSTANTA_REGION
    /\ positionResult \in Samples
    /\ Touchable
    /\ showDetails = FALSE

\* C10: an outstanding position call is eventually settled, the step that
\* settles it ends loading whether it resolved or rejected, and the main
\* button then takes a press that issues a new call.
C10_InFlightSettles ==
    /\ [][positionCalls' < positionCalls
             => (positionCalls' = 0 /\ loading' = FALSE /\ CanAcquire')]_vars
    /\ (positionCalls > 0) ~> (positionCalls = 0 /\ CanAcquire)

C10_Witness ==
    /\ positionResult = PositionError
    /\ errorMsg = NullMsg
    /\ positionCalls = 1
    /\ loading

====
